---- MODULE Spec2Model ----
(***************************************************************************)
(* Model of the HTTP load tester of src/main.go (second, current version   *)
(* of the program, lines 329-857): main, executeLoadTest, the attempt      *)
(* goroutines, the closing goroutine, showProgress, makeRequest,           *)
(* classifyErrorToHTTPStatus and collectResults.                           *)
(*                                                                         *)
(* Goroutines are processes with a program counter; a channel is its       *)
(* buffer plus a closed flag; a send blocks while the buffer is full, a    *)
(* receive while it is empty, a send on a closed channel panics.           *)
(* A failure message is modelled by the set of the substrings, among the   *)
(* ones the classifier looks for, that the text contains: none of them is  *)
(* a substring of another, so every set is the content of some text and    *)
(* strings.Contains(errMsg, s) is membership of s in that set.             *)
(***************************************************************************)
EXTENDS Integers, Sequences, FiniteSets, TLC

\* ---------------------------------------------------------------- bounds
MaxRequests == 2
MaxConcurrency == 2
MaxTokens == 3
MaxOutcomes == 3

\* ------------------------------------------------------------- constants
\* time.Hour, the initial MinDuration. Durations are counted in minutes here
\* (a time.Duration counts nanoseconds, beyond the checker's integers).
Hour == 60

\* --------------------------------------------------------------- inputs
\* Values of the -requests and -concurrency flags (flag.Int accepts any int).
RequestsValues == (-1)..MaxRequests
ConcurrencyValues == (-1)..MaxConcurrency
URLValues == {"", "http://target"}

\* Elapsed times time.Since(start) of an issued call: short ones and one
\* longer than time.Hour (the -timeout flag sets no upper limit).
ElapsedValues == {2, Hour + 1}

\* Status codes a server answers with.
ResponseCodes == {200}

\* The substrings classifyErrorToHTTPStatus searches the message for.
Tokens ==
  {"connection refused", "no such host", "lookup", "certificate", "x509",
   "connection reset", "TLS handshake timeout", "stopped after", "redirects",
   "EOF", "connection closed", "context deadline exceeded", "dial tcp",
   "i/o timeout", "net/http"}

Messages == {m \in SUBSET Tokens : Cardinality(m) <= MaxTokens}

\* What the dynamic type of an error adds to its text: whether it implements
\* net.Error and what Timeout() and Temporary() report.
NetAttrs ==
  {a \in [isNetError : BOOLEAN, Timeout : BOOLEAN, Temporary : BOOLEAN] :
     ~a.isNetError => (~a.Timeout /\ ~a.Temporary)}

Failure(m, a) ==
  [msg |-> m, isNetError |-> a.isNetError, Timeout |-> a.Timeout,
   Temporary |-> a.Temporary]

Failures == {Failure(m, a) : m \in Messages, a \in NetAttrs}

\* The nil error.
Nil == [msg |-> {}, isNetError |-> FALSE, Timeout |-> FALSE,
        Temporary |-> FALSE, nil |-> TRUE]

\* err.Error()
ErrorText(err) == err.msg

\* strings.Contains(errMsg, s)
Contains(errMsg, s) == s \in errMsg

\* ------------------------------------------------------ error classifier
\* classifyByMessage without the x509 alternative of the certificate check.
classifyByMessageNoX509(errMsg) ==
  IF Contains(errMsg, "connection refused") THEN 503
  ELSE IF Contains(errMsg, "no such host")
          \/ (Contains(errMsg, "lookup") /\ Contains(errMsg, "no such host"))
    THEN 404
  ELSE IF Contains(errMsg, "certificate") THEN 495
  ELSE IF Contains(errMsg, "connection reset") THEN 500
  ELSE IF Contains(errMsg, "TLS handshake timeout") THEN 408
  ELSE IF Contains(errMsg, "stopped after") /\ Contains(errMsg, "redirects")
    THEN 310
  ELSE IF Contains(errMsg, "EOF") THEN 500
  ELSE IF Contains(errMsg, "connection closed") THEN 500
  ELSE IF Contains(errMsg, "context deadline exceeded") THEN 408
  ELSE IF Contains(errMsg, "dial tcp") /\ Contains(errMsg, "connection refused")
    THEN 503
  ELSE IF Contains(errMsg, "dial tcp") /\ Contains(errMsg, "i/o timeout")
    THEN 408
  ELSE IF Contains(errMsg, "net/http") THEN 500
  ELSE 500

\* The part of classifyErrorToHTTPStatus that reads the message text.
classifyByMessage(errMsg) ==
  IF Contains(errMsg, "connection refused") THEN 503
  ELSE IF Contains(errMsg, "no such host")
          \/ (Contains(errMsg, "lookup") /\ Contains(errMsg, "no such host"))
    THEN 404
  ELSE IF Contains(errMsg, "certificate") \/ Contains(errMsg, "x509") THEN 495
  ELSE IF Contains(errMsg, "connection reset") THEN 500
  ELSE IF Contains(errMsg, "TLS handshake timeout") THEN 408
  ELSE IF Contains(errMsg, "stopped after") /\ Contains(errMsg, "redirects")
    THEN 310
  ELSE IF Contains(errMsg, "EOF") THEN 500
  ELSE IF Contains(errMsg, "connection closed") THEN 500
  ELSE IF Contains(errMsg, "context deadline exceeded") THEN 408
  ELSE IF Contains(errMsg, "dial tcp") /\ Contains(errMsg, "connection refused")
    THEN 503
  ELSE IF Contains(errMsg, "dial tcp") /\ Contains(errMsg, "i/o timeout")
    THEN 408
  ELSE IF Contains(errMsg, "net/http") THEN 500
  ELSE 500

\* classifyErrorToHTTPStatus that takes every net.Error for a timeout.
classifyEveryNetErrorTimeout(err) ==
  IF err = Nil THEN 200
  ELSE IF err.isNetError THEN 408
  ELSE classifyByMessage(ErrorText(err))

\* The whole function: the dynamic type of the error first, then its text.
classifyErrorToHTTPStatus(err) ==
  IF err = Nil THEN 200
  ELSE IF err.isNetError /\ err.Timeout THEN 408
  ELSE IF err.isNetError /\ err.Temporary THEN 503
  ELSE classifyByMessage(ErrorText(err))

\* ------------------------------------------------------- request executor
MethodValues == {"GET", "BAD METHOD"}

\* http.NewRequest(config.Method, config.URL, body): fails on a method that
\* is no valid token, with the plain error net/http: invalid method "...".
NewRequestError(cfg) ==
  IF cfg.Method = "GET" THEN Nil
  ELSE Failure({"net/http"},
               [isNetError |-> FALSE, Timeout |-> FALSE, Temporary |-> FALSE])

\* Errors client.Do returns (a *url.Error, which implements net.Error):
\* a refused connection.
TransportFailures ==
  {Failure({"dial tcp", "connection refused"},
           [isNetError |-> TRUE, Timeout |-> FALSE, Temporary |-> FALSE])}

\* The Result values one makeRequest call can send, by its three paths.
ConstructionFailureResult(err) ==
  [StatusCode |-> classifyErrorToHTTPStatus(err), Error |-> err, Duration |-> 0]

TransportFailureResult(err, duration) ==
  [StatusCode |-> classifyErrorToHTTPStatus(err), Error |-> err,
   Duration |-> duration]

SuccessResult(code, duration) ==
  [StatusCode |-> code, Error |-> Nil, Duration |-> duration]

makeRequestResults(cfg) ==
  IF NewRequestError(cfg) # Nil
    THEN {ConstructionFailureResult(NewRequestError(cfg))}
    ELSE {TransportFailureResult(e, d) : e \in TransportFailures, d \in ElapsedValues}
         \cup {SuccessResult(c, d) : c \in ResponseCodes, d \in ElapsedValues}

\* ------------------------------------------------------------ aggregator
\* MapIncrement that stores 1 instead of adding 1.
MapIncrementReset(m, k) ==
  IF k \in DOMAIN m THEN [m EXCEPT ![k] = 1] ELSE m @@ (k :> 1)

\* m[k]++ on a Go map[K]int (a missing key reads as 0).
MapIncrement(m, k) ==
  IF k \in DOMAIN m THEN [m EXCEPT ![k] = @ + 1] ELSE m @@ (k :> 1)

EmptyMap == <<>>

\* The Report collectResults starts from.
NewReport ==
  [TotalRequests |-> 0, StatusCodes |-> EmptyMap, Errors |-> 0,
   Durations |-> <<>>, MinDuration |-> Hour, MaxDuration |-> 0,
   AvgDuration |-> 0, StdDeviation |-> 0, ErrorDetails |-> EmptyMap]

\* RecordError that starts from a fresh ErrorDetail without looking the
\* message up.
RecordErrorFresh(details, result) ==
  LET errMsg == ErrorText(result.Error)
      counted == [Count |-> 1, Message |-> errMsg, Code |-> result.StatusCode]
  IN IF errMsg \in DOMAIN details
       THEN [details EXCEPT ![errMsg] = counted]
       ELSE details @@ (errMsg :> counted)

\* RecordError that stores the code of every occurrence, the last one
\* remaining.
RecordErrorOverwritesCode(details, result) ==
  LET errMsg == ErrorText(result.Error)
      detail == IF errMsg \in DOMAIN details
                  THEN details[errMsg]
                  ELSE [Count |-> 0, Message |-> errMsg, Code |-> result.StatusCode]
      counted == [detail EXCEPT !.Count = @ + 1, !.Code = result.StatusCode]
  IN IF errMsg \in DOMAIN details
       THEN [details EXCEPT ![errMsg] = counted]
       ELSE details @@ (errMsg :> counted)

\* The ErrorDetails update of one failed result.
RecordError(details, result) ==
  LET errMsg == ErrorText(result.Error)
      detail == IF errMsg \in DOMAIN details
                  THEN details[errMsg]
                  ELSE [Count |-> 0, Message |-> errMsg, Code |-> result.StatusCode]
      counted == [detail EXCEPT !.Count = @ + 1]
  IN IF errMsg \in DOMAIN details
       THEN [details EXCEPT ![errMsg] = counted]
       ELSE details @@ (errMsg :> counted)

\* RecordDuration with the maximum compared the wrong way round.
RecordDurationMaxSwapped(r, result) ==
  IF result.Duration > 0
    THEN [r EXCEPT
            !.Durations = Append(@, result.Duration),
            !.MinDuration = IF result.Duration < @ THEN result.Duration ELSE @,
            !.MaxDuration = IF result.Duration < @ THEN result.Duration ELSE @]
    ELSE r

\* RecordDuration without the test for a zero duration.
RecordDurationAlways(r, result) ==
  [r EXCEPT
     !.Durations = Append(@, result.Duration),
     !.MinDuration = IF result.Duration < @ THEN result.Duration ELSE @,
     !.MaxDuration = IF result.Duration > @ THEN result.Duration ELSE @]

\* The duration bookkeeping of one result.
RecordDuration(r, result) ==
  IF result.Duration > 0
    THEN [r EXCEPT
            !.Durations = Append(@, result.Duration),
            !.MinDuration = IF result.Duration < @ THEN result.Duration ELSE @,
            !.MaxDuration = IF result.Duration > @ THEN result.Duration ELSE @]
    ELSE r

\* ProcessResult that records the duration of a result only when it carries
\* no error.
ProcessResultFailedSkipsDuration(r, result) ==
  LET counted == [r EXCEPT !.TotalRequests = @ + 1,
                           !.StatusCodes = MapIncrement(@, result.StatusCode)]
      failed == IF result.Error # Nil
                  THEN [counted EXCEPT !.Errors = @ + 1,
                                       !.ErrorDetails = RecordError(@, result)]
                  ELSE counted
  IN IF result.Error # Nil THEN failed ELSE RecordDuration(failed, result)

\* One iteration of the loop over the results channel.
ProcessResult(r, result) ==
  LET counted == [r EXCEPT !.TotalRequests = @ + 1,
                           !.StatusCodes = MapIncrement(@, result.StatusCode)]
      failed == IF result.Error # Nil
                  THEN [counted EXCEPT !.Errors = @ + 1,
                                       !.ErrorDetails = RecordError(@, result)]
                  ELSE counted
  IN RecordDuration(failed, result)

RECURSIVE SumSeq(_)
SumSeq(s) == IF s = <<>> THEN 0 ELSE Head(s) + SumSeq(Tail(s))

\* total / time.Duration(len(report.Durations)), on non-negative operands.
AverageOf(durations) == SumSeq(durations) \div Len(durations)

\* ------------------------------------------------------ statistics engine
\* The place of element n of s in ascending order (equal elements keep
\* their order; they are indistinguishable in the result).
RankIn(s, n) ==
  1 + Cardinality({m \in 1..Len(s) : s[m] < s[n] \/ (s[m] = s[n] /\ m < n)})

\* sort.Slice(durations, less) with less the order of the durations: the
\* elements of the slice in ascending order.
SortAscending(s) ==
  [k \in 1..Len(s) |-> s[CHOOSE n \in 1..Len(s) : RankIn(s, n) = k]]

\* PercentileIndex that rounds the quotient up.
PercentileIndexRoundedUp(n, percentile) == (n * percentile + 99) \div 100

\* int(float64(len(durations)) * percentile / 100) for a whole percentile:
\* the product is exact and the quotient is truncated.
PercentileIndex(n, percentile) == (n * percentile) \div 100

\* calculatePercentile that indexes the slice as it is, without sorting it.
calculatePercentileUnsorted(durations, percentile) ==
  IF Len(durations) = 0 THEN [value |-> 0, durations |-> durations]
  ELSE LET index == PercentileIndex(Len(durations), percentile)
           clamped == IF index >= Len(durations) THEN Len(durations) - 1 ELSE index
       IN [value |-> durations[clamped + 1], durations |-> durations]

\* calculatePercentile(durations, percentile): the value it returns and the
\* elements of the caller's slice after the call (sort.Slice sorts the slice
\* it is given, which shares its array with the caller's).
calculatePercentile(durations, percentile) ==
  IF Len(durations) = 0 THEN [value |-> 0, durations |-> durations]
  ELSE LET sorted == SortAscending(durations)
           index == PercentileIndex(Len(durations), percentile)
           clamped == IF index >= Len(durations) THEN Len(durations) - 1 ELSE index
       IN [value |-> sorted[clamped + 1], durations |-> sorted]

RECURSIVE SumSquares(_, _)
SumSquares(s, avg) ==
  IF s = <<>> THEN 0
  ELSE (Head(s) - avg) * (Head(s) - avg) + SumSquares(Tail(s), avg)

\* The greatest r of lo..hi with r * r * n <= sum (lo is one such r, and
\* hi + 1 is none): the truncated square root of sum / n.
RootBetween(lo, hi, n, sum) ==
  CHOOSE r \in lo..hi :
    r * r * n <= sum /\ (r = hi \/ (r + 1) * (r + 1) * n > sum)

RECURSIVE MaxDeviation(_, _)
MaxDeviation(s, avg) ==
  IF s = <<>> THEN 0
  ELSE LET d == IF Head(s) >= avg THEN Head(s) - avg ELSE avg - Head(s)
           rest == MaxDeviation(Tail(s), avg)
       IN IF d > rest THEN d ELSE rest

\* time.Duration(NaN): what the conversion of 0/0 yields is not defined; the
\* value -1 stands for it.
NaNDuration == 0 - 1

\* calculateStdDeviation without the test for an empty slice.
calculateStdDeviationNoGuard(durations, avg) ==
  IF Len(durations) = 0 THEN NaNDuration
  ELSE RootBetween(0, MaxDeviation(durations, avg), Len(durations),
                   SumSquares(durations, avg))

\* calculateStdDeviation(durations, avg): the square root of the population
\* variance, truncated to a whole number of time units.
calculateStdDeviation(durations, avg) ==
  IF Len(durations) = 0 THEN 0
  ELSE RootBetween(0, MaxDeviation(durations, avg), Len(durations),
                   SumSquares(durations, avg))

\* The statements after the loop.
FinalizeReport(r) ==
  LET averaged == IF Len(r.Durations) > 0
                    THEN [r EXCEPT !.AvgDuration = AverageOf(r.Durations)]
                    ELSE r
  IN [averaged EXCEPT
        !.StdDeviation = calculateStdDeviation(averaged.Durations,
                                               averaged.AvgDuration)]

\* ------------------------------------------------------------- rendering
\* d.Milliseconds(), for a duration counted in minutes.
Milliseconds(d) == d * 60000

\* What printReport writes: the response time lines only for a Report with
\* durations, the line "No successful requests ..." otherwise.
printReportOutput(r) ==
  IF Len(r.Durations) > 0
    THEN [kind |-> "report", TotalRequests |-> r.TotalRequests,
          Minimum |-> r.MinDuration, Maximum |-> r.MaxDuration,
          Average |-> r.AvgDuration,
          P50 |-> calculatePercentile(r.Durations, 50).value,
          P90 |-> calculatePercentile(r.Durations, 90).value,
          P95 |-> calculatePercentile(r.Durations, 95).value,
          P99 |-> calculatePercentile(r.Durations, 99).value,
          StatusCodes |-> r.StatusCodes, Errors |-> r.Errors]
    ELSE [kind |-> "report", TotalRequests |-> r.TotalRequests,
          NoSuccessfulRequests |-> TRUE,
          StatusCodes |-> r.StatusCodes, Errors |-> r.Errors]

\* The Report printReport leaves to its caller: its four calls of
\* calculatePercentile sort the shared Durations array.
printReportEffect(r) ==
  IF Len(r.Durations) > 0
    THEN [r EXCEPT !.Durations = calculatePercentile(@, 50).durations]
    ELSE r

\* JSONExporter.Export: json.MarshalIndent writes every field of the Report
\* under its name, a Duration as its integer count.
JSONExport(r) ==
  [TotalRequests |-> r.TotalRequests, StatusCodes |-> r.StatusCodes,
   Errors |-> r.Errors, Durations |-> r.Durations,
   MinDuration |-> r.MinDuration, MaxDuration |-> r.MaxDuration,
   AvgDuration |-> r.AvgDuration, StdDeviation |-> r.StdDeviation,
   ErrorDetails |-> r.ErrorDetails]

\* CSVExporter.Export: the header columns with their values, the durations
\* in milliseconds, then the status code rows.
CSVExport(r) ==
  [TotalRequests |-> r.TotalRequests,
   MinDurationMs |-> Milliseconds(r.MinDuration),
   MaxDurationMs |-> Milliseconds(r.MaxDuration),
   AvgDurationMs |-> Milliseconds(r.AvgDuration),
   Errors |-> r.Errors, StatusCodes |-> r.StatusCodes]


\* ----------------------------------------------------------------- state
VARIABLES
  config,          \* the Config main builds from the flags
  mainPc,          \* where the main goroutine is
  i,               \* the loop variable of executeLoadTest
  wg,              \* the WaitGroup counter
  semaphore,       \* number of tokens in the semaphore channel
  results,         \* buffer of the results channel
  resultsClosed,
  progress,        \* number of events in the progress channel
  progressClosed,
  taskPc,          \* where each attempt goroutine is
  closerPc,        \* where the closing goroutine is
  showPc,          \* where showProgress is
  current,         \* showProgress's counter
  report,          \* the Report collectResults builds
  delivered,       \* history: sends on results by each attempt goroutine
  emitted,         \* history: sends on progress by each attempt goroutine
  sendsAtClose,    \* history: sends on results so far when it was closed
  consumed,        \* history: the results collectResults has processed
  classified,      \* the classifier's inputs and outputs (SpecClassify)
  printed,         \* what main has written to standard output
  agg              \* the aggregator on a given stream (SpecAggregate)

vars ==
  <<config, mainPc, i, wg, semaphore, results, resultsClosed, progress,
    progressClosed, taskPc, closerPc, showPc, current, report, delivered,
    emitted, sendsAtClose, consumed, classified, printed, agg>>

Tasks == 1..MaxRequests

NoConfig ==
  [URL |-> "", Requests |-> 0, Concurrency |-> 1, Method |-> "GET"]

Configs ==
  [URL : URLValues, Requests : RequestsValues, Concurrency : ConcurrencyValues,
   Method : MethodValues]

NotClassified == [pc |-> "idle"]

NothingPrinted == [kind |-> "nothing"]

\* fmt.Println("URL and number of requests are required")
UsageLine == [kind |-> "usage"]

NotAggregating == [pc |-> "idle"]

Init ==
  /\ config = NoConfig
  /\ mainPc = "main"
  /\ i = 0
  /\ wg = 0
  /\ semaphore = 0
  /\ results = <<>>
  /\ resultsClosed = FALSE
  /\ progress = 0
  /\ progressClosed = FALSE
  /\ taskPc = [t \in Tasks |-> "unborn"]
  /\ closerPc = "unborn"
  /\ showPc = "unborn"
  /\ current = 0
  /\ report = NewReport
  /\ delivered = [t \in Tasks |-> 0]
  /\ emitted = [t \in Tasks |-> 0]
  /\ sendsAtClose = -1
  /\ consumed = <<>>
  /\ classified = NotClassified
  /\ printed = NothingPrinted
  /\ agg = NotAggregating

\* The process lives: main has not returned and nothing has crashed it.
Running == mainPc \in {"executeLoadTest", "loop", "collect", "report"}

\* ------------------------------------------------------------------ main
\* ParseFlags that tests the URL only.
ParseFlagsUrlOnly ==
  /\ mainPc = "main"
  /\ \E cfg \in Configs :
       /\ config' = cfg
       /\ IF cfg.URL = ""
            THEN mainPc' = "usage" /\ printed' = UsageLine
            ELSE mainPc' = "executeLoadTest" /\ UNCHANGED printed
  /\ UNCHANGED <<i, wg, semaphore, results, resultsClosed, progress,
                 progressClosed, taskPc, closerPc, showPc, current, report,
                 delivered, emitted, sendsAtClose, consumed, classified,
                 agg>>

\* main up to the call of executeLoadTest: the flags become the Config, and
\* an empty URL or zero requests end the program with the usage line.
ParseFlags ==
  /\ mainPc = "main"
  /\ \E cfg \in Configs :
       /\ config' = cfg
       /\ IF cfg.URL = "" \/ cfg.Requests = 0
            THEN mainPc' = "usage" /\ printed' = UsageLine
            ELSE mainPc' = "executeLoadTest" /\ UNCHANGED printed
  /\ UNCHANGED <<i, wg, semaphore, results, resultsClosed, progress,
                 progressClosed, taskPc, closerPc, showPc, current, report,
                 delivered, emitted, sendsAtClose, consumed, classified,
                 agg>>

\* executeLoadTest up to its loop: the three channels are made (make panics
\* on a negative size) and showProgress is started.
MakeChannels ==
  /\ mainPc = "executeLoadTest"
  /\ IF config.Requests < 0 \/ config.Concurrency < 0
       THEN /\ mainPc' = "panic"
            /\ UNCHANGED showPc
       ELSE /\ mainPc' = "loop"
            /\ showPc' = "range"
  /\ i' = 0
  /\ UNCHANGED <<config, wg, semaphore, results, resultsClosed, progress,
                 progressClosed, taskPc, closerPc, current, report, delivered,
                 emitted, sendsAtClose, consumed, classified,
                 printed, agg>>

\* SpawnTask without wg.Add(1).
SpawnTaskWithoutAdd ==
  /\ mainPc = "loop"
  /\ i < config.Requests
  /\ taskPc' = [taskPc EXCEPT ![i + 1] = "acquire"]
  /\ i' = i + 1
  /\ UNCHANGED <<config, mainPc, wg, semaphore, results, resultsClosed,
                 progress, progressClosed, closerPc, showPc, current, report,
                 delivered, emitted, sendsAtClose, consumed, classified,
                 printed, agg>>

\* One iteration of the loop: wg.Add(1) and the go statement.
SpawnTask ==
  /\ mainPc = "loop"
  /\ i < config.Requests
  /\ wg' = wg + 1
  /\ taskPc' = [taskPc EXCEPT ![i + 1] = "acquire"]
  /\ i' = i + 1
  /\ UNCHANGED <<config, mainPc, semaphore, results, resultsClosed, progress,
                 progressClosed, closerPc, showPc, current, report, delivered,
                 emitted, sendsAtClose, consumed, classified,
                 printed, agg>>

\* After the loop: the closing goroutine is started and main enters
\* collectResults.
SpawnCloser ==
  /\ mainPc = "loop"
  /\ i >= config.Requests
  /\ closerPc' = "wait"
  /\ mainPc' = "collect"
  /\ report' = NewReport
  /\ UNCHANGED <<config, i, wg, semaphore, results, resultsClosed, progress,
                 progressClosed, taskPc, showPc, current, delivered, emitted,
                 sendsAtClose, consumed, classified,
                 printed, agg>>


\* ---------------------------------------------------- attempt goroutines
\* Acquire without the admission limit: the send never blocks.
AcquireUnbounded(t) ==
  /\ Running
  /\ taskPc[t] = "acquire"
  /\ semaphore' = semaphore + 1
  /\ taskPc' = [taskPc EXCEPT ![t] = "makeRequest"]
  /\ UNCHANGED <<config, mainPc, i, wg, results, resultsClosed, progress,
                 progressClosed, closerPc, showPc, current, report, delivered,
                 emitted, sendsAtClose, consumed, classified,
                 printed, agg>>

\* Acquire that goes on to makeRequest without sending a token.
AcquireNoToken(t) ==
  /\ Running
  /\ taskPc[t] = "acquire"
  /\ taskPc' = [taskPc EXCEPT ![t] = "makeRequest"]
  /\ UNCHANGED <<config, mainPc, i, wg, semaphore, results, resultsClosed,
                 progress, progressClosed, closerPc, showPc, current, report,
                 delivered, emitted, sendsAtClose, consumed, classified,
                 printed, agg>>

\* semaphore <- struct{}{}: blocks while the channel holds Concurrency
\* tokens (for ever on a channel of capacity 0, which nobody receives from).
Acquire(t) ==
  /\ Running
  /\ taskPc[t] = "acquire"
  /\ semaphore < config.Concurrency
  /\ semaphore' = semaphore + 1
  /\ taskPc' = [taskPc EXCEPT ![t] = "makeRequest"]
  /\ UNCHANGED <<config, mainPc, i, wg, results, resultsClosed, progress,
                 progressClosed, closerPc, showPc, current, report, delivered,
                 emitted, sendsAtClose, consumed, classified,
                 printed, agg>>

\* makeRequest on a results channel with room for Concurrency Results.
makeRequestSmallBuffer(t) ==
  /\ Running
  /\ taskPc[t] = "makeRequest"
  /\ \E result \in makeRequestResults(config) :
       IF resultsClosed
         THEN /\ mainPc' = "panic"
              /\ UNCHANGED <<results, delivered, taskPc,
                 printed, agg>>
         ELSE /\ Len(results) < config.Concurrency
              /\ results' = Append(results, result)
              /\ delivered' = [delivered EXCEPT ![t] = @ + 1]
              /\ taskPc' = [taskPc EXCEPT ![t] = "progress"]
              /\ UNCHANGED mainPc
  /\ UNCHANGED <<config, i, wg, semaphore, resultsClosed, progress,
                 progressClosed, closerPc, showPc, current, report, emitted,
                 sendsAtClose, consumed, classified,
                 printed, agg>>

\* makeRequest(config, results): one HTTP attempt and the send of its Result
\* (blocks while the buffer is full, panics on a closed channel).
makeRequest(t) ==
  /\ Running
  /\ taskPc[t] = "makeRequest"
  /\ \E result \in makeRequestResults(config) :
       IF resultsClosed
         THEN /\ mainPc' = "panic"
              /\ UNCHANGED <<results, delivered, taskPc,
                 printed, agg>>
         ELSE /\ Len(results) < config.Requests
              /\ results' = Append(results, result)
              /\ delivered' = [delivered EXCEPT ![t] = @ + 1]
              /\ taskPc' = [taskPc EXCEPT ![t] = "progress"]
              /\ UNCHANGED mainPc
  /\ UNCHANGED <<config, i, wg, semaphore, resultsClosed, progress,
                 progressClosed, closerPc, showPc, current, report, emitted,
                 sendsAtClose, consumed, classified,
                 printed, agg>>

\* EmitProgress that sends two events.
EmitProgressTwice(t) ==
  /\ Running
  /\ taskPc[t] = "progress"
  /\ IF progressClosed
       THEN /\ mainPc' = "panic"
            /\ UNCHANGED <<progress, emitted, taskPc,
                 printed, agg>>
       ELSE /\ progress < config.Requests
            /\ progress' = progress + 2
            /\ emitted' = [emitted EXCEPT ![t] = @ + 2]
            /\ taskPc' = [taskPc EXCEPT ![t] = "release"]
            /\ UNCHANGED mainPc
  /\ UNCHANGED <<config, i, wg, semaphore, results, resultsClosed,
                 progressClosed, closerPc, showPc, current, report, delivered,
                 sendsAtClose, consumed, classified,
                 printed, agg>>

\* progress <- 1
EmitProgress(t) ==
  /\ Running
  /\ taskPc[t] = "progress"
  /\ IF progressClosed
       THEN /\ mainPc' = "panic"
            /\ UNCHANGED <<progress, emitted, taskPc,
                 printed, agg>>
       ELSE /\ progress < config.Requests
            /\ progress' = progress + 1
            /\ emitted' = [emitted EXCEPT ![t] = @ + 1]
            /\ taskPc' = [taskPc EXCEPT ![t] = "release"]
            /\ UNCHANGED mainPc
  /\ UNCHANGED <<config, i, wg, semaphore, results, resultsClosed,
                 progressClosed, closerPc, showPc, current, report, delivered,
                 sendsAtClose, consumed, classified,
                 printed, agg>>

\* Release that leaves the token in the channel.
ReleaseLeak(t) ==
  /\ Running
  /\ taskPc[t] = "release"
  /\ taskPc' = [taskPc EXCEPT ![t] = "wgDone"]
  /\ UNCHANGED <<config, mainPc, i, wg, semaphore, results, resultsClosed,
                 progress, progressClosed, closerPc, showPc, current, report,
                 delivered, emitted, sendsAtClose, consumed, classified,
                 printed, agg>>

\* <-semaphore
Release(t) ==
  /\ Running
  /\ taskPc[t] = "release"
  /\ semaphore > 0
  /\ semaphore' = semaphore - 1
  /\ taskPc' = [taskPc EXCEPT ![t] = "wgDone"]
  /\ UNCHANGED <<config, mainPc, i, wg, results, resultsClosed, progress,
                 progressClosed, closerPc, showPc, current, report, delivered,
                 emitted, sendsAtClose, consumed, classified,
                 printed, agg>>

\* The deferred wg.Done() (panics on a negative counter).
WgDone(t) ==
  /\ Running
  /\ taskPc[t] = "wgDone"
  /\ wg' = wg - 1
  /\ mainPc' = IF wg - 1 < 0 THEN "panic" ELSE mainPc
  /\ taskPc' = [taskPc EXCEPT ![t] = "done"]
  /\ UNCHANGED <<config, i, semaphore, results, resultsClosed, progress,
                 progressClosed, closerPc, showPc, current, report, delivered,
                 emitted, sendsAtClose, consumed, classified,
                 printed, agg>>

\* ------------------------------------------------------ closing goroutine
\* WgWait that does not wait for the counter to reach zero.
WgWaitEarly ==
  /\ Running
  /\ closerPc = "wait"
  /\ closerPc' = "closeResults"
  /\ UNCHANGED <<config, mainPc, i, wg, semaphore, results, resultsClosed,
                 progress, progressClosed, taskPc, showPc, current, report,
                 delivered, emitted, sendsAtClose, consumed, classified,
                 printed, agg>>

\* wg.Wait() returns once the counter is zero.
WgWait ==
  /\ Running
  /\ closerPc = "wait"
  /\ wg = 0
  /\ closerPc' = "closeResults"
  /\ UNCHANGED <<config, mainPc, i, wg, semaphore, results, resultsClosed,
                 progress, progressClosed, taskPc, showPc, current, report,
                 delivered, emitted, sendsAtClose, consumed, classified,
                 printed, agg>>

RECURSIVE SumUpTo(_, _)
SumUpTo(f, n) == IF n = 0 THEN 0 ELSE f[n] + SumUpTo(f, n - 1)

\* Sends on the results channel so far.
TotalDelivered == SumUpTo(delivered, MaxRequests)
\* Sends on the progress channel so far.
TotalEmitted == SumUpTo(emitted, MaxRequests)

\* close(results) (panics on a channel already closed)
CloseResults ==
  /\ Running
  /\ closerPc = "closeResults"
  /\ IF resultsClosed
       THEN /\ mainPc' = "panic"
            /\ UNCHANGED <<resultsClosed, sendsAtClose, closerPc,
                 printed, agg>>
       ELSE /\ resultsClosed' = TRUE
            /\ sendsAtClose' = TotalDelivered
            /\ closerPc' = "closeProgress"
            /\ UNCHANGED mainPc
  /\ UNCHANGED <<config, i, wg, semaphore, results, progress, progressClosed,
                 taskPc, showPc, current, report, delivered, emitted, consumed,
                 classified,
                 printed, agg>>

\* close(progress)
CloseProgress ==
  /\ Running
  /\ closerPc = "closeProgress"
  /\ IF progressClosed
       THEN /\ mainPc' = "panic"
            /\ UNCHANGED <<progressClosed, closerPc,
                 printed, agg>>
       ELSE /\ progressClosed' = TRUE
            /\ closerPc' = "done"
            /\ UNCHANGED mainPc
  /\ UNCHANGED <<config, i, wg, semaphore, results, resultsClosed, progress,
                 taskPc, showPc, current, report, delivered, emitted,
                 sendsAtClose, consumed, classified,
                 printed, agg>>

\* ----------------------------------------------------------- showProgress
\* One iteration of the loop over the progress channel.
showProgress ==
  /\ Running
  /\ showPc = "range"
  /\ progress > 0
  /\ progress' = progress - 1
  /\ current' = current + 1
  /\ UNCHANGED <<config, mainPc, i, wg, semaphore, results, resultsClosed,
                 progressClosed, taskPc, closerPc, showPc, report, delivered,
                 emitted, sendsAtClose, consumed, classified,
                 printed, agg>>

\* The loop ends on the closed and drained channel.
showProgressEnd ==
  /\ Running
  /\ showPc = "range"
  /\ progress = 0
  /\ progressClosed
  /\ showPc' = "done"
  /\ UNCHANGED <<config, mainPc, i, wg, semaphore, results, resultsClosed,
                 progress, progressClosed, taskPc, closerPc, current, report,
                 delivered, emitted, sendsAtClose, consumed, classified,
                 printed, agg>>

\* --------------------------------------------------------- collectResults
\* One iteration of the loop over the results channel.
collectResults ==
  /\ mainPc = "collect"
  /\ results # <<>>
  /\ report' = ProcessResult(report, Head(results))
  /\ consumed' = Append(consumed, Head(results))
  /\ results' = Tail(results)
  /\ UNCHANGED <<config, mainPc, i, wg, semaphore, resultsClosed, progress,
                 progressClosed, taskPc, closerPc, showPc, current, delivered,
                 emitted, sendsAtClose, classified,
                 printed, agg>>

\* The loop ends on the closed and drained channel; the Report is completed
\* and returned to main.
collectResultsEnd ==
  /\ mainPc = "collect"
  /\ results = <<>>
  /\ resultsClosed
  /\ report' = FinalizeReport(report)
  /\ mainPc' = "report"
  /\ UNCHANGED <<config, i, wg, semaphore, results, resultsClosed, progress,
                 progressClosed, taskPc, closerPc, showPc, current, delivered,
                 emitted, sendsAtClose, consumed, classified,
                 printed, agg>>

\* ------------------------------------------- the classifier on its own
\* Two failures with the same message text and any dynamic type.
ClassifierInputs ==
  {[pc |-> "input", errA |-> Failure(m, a), errB |-> Failure(m, b)] :
     m \in Messages, a \in NetAttrs, b \in NetAttrs}

InitClassify ==
  /\ config = NoConfig
  /\ mainPc = "main"
  /\ i = 0
  /\ wg = 0
  /\ semaphore = 0
  /\ results = <<>>
  /\ resultsClosed = FALSE
  /\ progress = 0
  /\ progressClosed = FALSE
  /\ taskPc = [t \in Tasks |-> "unborn"]
  /\ closerPc = "unborn"
  /\ showPc = "unborn"
  /\ current = 0
  /\ report = NewReport
  /\ delivered = [t \in Tasks |-> 0]
  /\ emitted = [t \in Tasks |-> 0]
  /\ sendsAtClose = -1
  /\ consumed = <<>>
  /\ classified \in ClassifierInputs
  /\ printed = NothingPrinted
  /\ agg = NotAggregating

\* classifyErrorToHTTPStatus applied to both failures.
Classify ==
  /\ classified.pc = "input"
  /\ classified' =
       [pc |-> "classified", errA |-> classified.errA, errB |-> classified.errB,
        codeA |-> classifyErrorToHTTPStatus(classified.errA),
        codeB |-> classifyErrorToHTTPStatus(classified.errB)]
  /\ UNCHANGED <<config, mainPc, i, wg, semaphore, results, resultsClosed,
                 progress, progressClosed, taskPc, closerPc, showPc, current,
                 report, delivered, emitted, sendsAtClose, consumed,
                 printed, agg>>

NextClassify == Classify

SpecClassify == InitClassify /\ [][NextClassify]_vars

\* main after executeLoadTest has returned: printReport and
\* printErrorDetails write the Report, then main returns and the process ends.
printReport ==
  /\ mainPc = "report"
  /\ printed' = printReportOutput(report)
  /\ report' = printReportEffect(report)
  /\ mainPc' = "exit"
  /\ UNCHANGED <<config, i, wg, semaphore, results, resultsClosed, progress,
                 progressClosed, taskPc, closerPc, showPc, current, delivered,
                 emitted, sendsAtClose, consumed, classified, agg>>

\* ------------------------------------------- the aggregator on its own
\* collectResults, the statistics and the renderings on any stream of the
\* Results makeRequest can send: with and without a request that could be
\* built, with a third elapsed time, with the client timeout, and with a
\* refused connection that reports Timeout() beside one that does not (the
\* same text, two codes).
AggElapsedValues == {1, 2, Hour + 1}

AggFailures ==
  TransportFailures
  \cup {Failure({"dial tcp", "connection refused"},
                [isNetError |-> TRUE, Timeout |-> TRUE, Temporary |-> FALSE]),
        Failure({"context deadline exceeded"},
                [isNetError |-> TRUE, Timeout |-> TRUE, Temporary |-> FALSE])}

AggOutcomes ==
  {ConstructionFailureResult(NewRequestError([Method |-> "BAD METHOD"]))}
  \cup {TransportFailureResult(e, d) : e \in AggFailures, d \in AggElapsedValues}
  \cup {SuccessResult(c, d) : c \in ResponseCodes, d \in AggElapsedValues}

RECURSIVE SeqsUpTo(_, _)
SeqsUpTo(S, n) ==
  IF n = 0 THEN {<<>>}
  ELSE LET shorter == SeqsUpTo(S, n - 1)
       IN shorter \cup {Append(q, x) : q \in shorter, x \in S}

\* The whole percentiles, those printReport asks for (50, 90, 95, 99) among
\* them.
QueriedPercentiles == 0..100

NoOutcome == [StatusCode |-> 0, Error |-> Nil, Duration |-> 0]

NoOutput == [kind |-> "nothing"]

InitAggregate ==
  /\ config = NoConfig
  /\ mainPc = "main"
  /\ i = 0
  /\ wg = 0
  /\ semaphore = 0
  /\ results = <<>>
  /\ resultsClosed = FALSE
  /\ progress = 0
  /\ progressClosed = FALSE
  /\ taskPc = [t \in Tasks |-> "unborn"]
  /\ closerPc = "unborn"
  /\ showPc = "unborn"
  /\ current = 0
  /\ report = NewReport
  /\ delivered = [t \in Tasks |-> 0]
  /\ emitted = [t \in Tasks |-> 0]
  /\ sendsAtClose = -1
  /\ consumed = <<>>
  /\ classified = NotClassified
  /\ printed = NothingPrinted
  /\ \E stream \in SeqsUpTo(AggOutcomes, MaxOutcomes) :
       agg = [pc |-> "collect", pending |-> stream, processed |-> <<>>,
              report |-> NewReport, before |-> NewReport, last |-> NoOutcome,
              percentile |-> [p \in QueriedPercentiles |-> 0], deviation |-> 0,
              plain |-> NoOutput, json |-> NoOutput, csv |-> NoOutput]

\* One iteration of the loop of collectResults.
AggregateNext ==
  /\ agg.pc = "collect"
  /\ agg.pending # <<>>
  /\ agg' = [agg EXCEPT
               !.pending = Tail(@),
               !.processed = Append(@, Head(agg.pending)),
               !.last = Head(agg.pending),
               !.before = agg.report,
               !.report = ProcessResult(@, Head(agg.pending))]
  /\ UNCHANGED <<config, mainPc, i, wg, semaphore, results, resultsClosed,
                 progress, progressClosed, taskPc, closerPc, showPc, current,
                 report, delivered, emitted, sendsAtClose, consumed,
                 classified, printed>>

\* The end of the stream: the statements after the loop, and the return.
AggregateEnd ==
  /\ agg.pc = "collect"
  /\ agg.pending = <<>>
  /\ agg' = [agg EXCEPT !.pc = "returned",
                        !.before = agg.report,
                        !.report = FinalizeReport(@)]
  /\ UNCHANGED <<config, mainPc, i, wg, semaphore, results, resultsClosed,
                 progress, progressClosed, taskPc, closerPc, showPc, current,
                 report, delivered, emitted, sendsAtClose, consumed,
                 classified, printed>>

\* The reporting layer asks for the percentiles and the standard deviation
\* of report.Durations: what it gets, and the Report after the calls.
QueryStatistics ==
  /\ agg.pc = "returned"
  /\ agg' = [agg EXCEPT
               !.pc = "queried",
               !.before = agg.report,
               !.percentile =
                  [p \in QueriedPercentiles |->
                     calculatePercentile(agg.report.Durations, p).value],
               !.deviation = calculateStdDeviation(agg.report.Durations,
                                                    agg.report.AvgDuration),
               !.report.Durations =
                  calculatePercentile(agg.report.Durations, 50).durations]
  /\ UNCHANGED <<config, mainPc, i, wg, semaphore, results, resultsClosed,
                 progress, progressClosed, taskPc, closerPc, showPc, current,
                 report, delivered, emitted, sendsAtClose, consumed,
                 classified, printed>>

\* The returned Report in its three renderings.
Render ==
  /\ agg.pc = "returned"
  /\ agg' = [agg EXCEPT
               !.pc = "rendered",
               !.plain = printReportOutput(agg.report),
               !.json = JSONExport(agg.report),
               !.csv = CSVExport(agg.report)]
  /\ UNCHANGED <<config, mainPc, i, wg, semaphore, results, resultsClosed,
                 progress, progressClosed, taskPc, closerPc, showPc, current,
                 report, delivered, emitted, sendsAtClose, consumed,
                 classified, printed>>

NextAggregate == AggregateNext \/ AggregateEnd \/ QueryStatistics \/ Render

SpecAggregate == InitAggregate /\ [][NextAggregate]_vars

\* ------------------------------------------------------------ the program
GoroutineStep ==
  \/ \E t \in Tasks : Acquire(t)
  \/ \E t \in Tasks : makeRequest(t)
  \/ \E t \in Tasks : EmitProgress(t)
  \/ \E t \in Tasks : Release(t)
  \/ \E t \in Tasks : WgDone(t)
  \/ WgWait
  \/ CloseResults
  \/ CloseProgress
  \/ showProgress
  \/ showProgressEnd

MainStep ==
  \/ ParseFlags
  \/ MakeChannels
  \/ SpawnTask
  \/ SpawnCloser
  \/ collectResults
  \/ collectResultsEnd
  \/ printReport

\* The Go runtime ends the process with "all goroutines are asleep -
\* deadlock!" when main and every other goroutine are blocked.
RuntimeDeadlock ==
  /\ Running
  /\ ~ENABLED (GoroutineStep \/ MainStep)
  /\ mainPc' = "fatal"
  /\ UNCHANGED <<config, i, wg, semaphore, results, resultsClosed, progress,
                 progressClosed, taskPc, closerPc, showPc, current, report,
                 delivered, emitted, sendsAtClose, consumed, classified,
                 printed, agg>>

Next == MainStep \/ GoroutineStep \/ RuntimeDeadlock

Spec == Init /\ [][Next]_vars

\* The Go scheduler runs every goroutine that can run.
FairSpec ==
  /\ Spec
  /\ WF_vars(MainStep)
  /\ \A t \in Tasks :
       WF_vars(Acquire(t) \/ makeRequest(t) \/ EmitProgress(t) \/ Release(t)
               \/ WgDone(t))
  /\ WF_vars(WgWait \/ CloseResults \/ CloseProgress)
  /\ WF_vars(showProgress \/ showProgressEnd)


\* ================================================================ claims
\* The attempt goroutines that hold an admission token: they have sent on
\* the semaphore and not yet received from it.
Holders == {t \in Tasks : taskPc[t] \in {"makeRequest", "progress", "release"}}

\* The attempt goroutines inside makeRequest.
InMakeRequest == {t \in Tasks : taskPc[t] = "makeRequest"}

\* C1: with Concurrency = C >= 1, at every instant at most C attempt
\* goroutines hold the admission token, and so at most C makeRequest calls
\* are in progress, although all the goroutines are started up front.
C1_ConcurrencyBound ==
  config.Concurrency >= 1 =>
    /\ Cardinality(Holders) <= config.Concurrency
    /\ Cardinality(InMakeRequest) <= config.Concurrency

\* C1 witness: every token is taken while another started goroutine waits
\* for one.
C1_Witness ==
  /\ config.Concurrency >= 1
  /\ Cardinality(InMakeRequest) = config.Concurrency
  /\ \E t \in Tasks : taskPc[t] = "acquire"

\* C2: every attempt goroutine sends exactly one Result, whichever path
\* makeRequest takes; the results channel is closed only after all Requests
\* sends, and no goroutine still has a send to do once it is closed.
C2_OneOutcomePerTask ==
  /\ \A t \in Tasks :
       /\ delivered[t] <= 1
       /\ taskPc[t] \in {"progress", "release", "wgDone", "done"}
            <=> delivered[t] = 1
  /\ resultsClosed =>
       /\ sendsAtClose = config.Requests
       /\ TotalDelivered = sendsAtClose
       /\ \A t \in Tasks : taskPc[t] \notin {"acquire", "makeRequest"}
  /\ Len(results) + Len(consumed) = TotalDelivered

\* C2 witness: the channel is closed after two goroutines delivered, one a
\* success and one a transport failure.
C2_Witness ==
  /\ resultsClosed
  /\ config.Requests = 2
  /\ Len(results) = 2
  /\ results[1].Error = Nil
  /\ results[2].Error # Nil


\* A Configuration the run is specified for.
ValidConfig == config.Requests > 0 /\ config.Concurrency >= 1

\* The run has ended with a Report: every goroutine is done, every Result
\* was produced and consumed, the results channel is closed.
Completed ==
  /\ mainPc = "report"
  /\ resultsClosed
  /\ results = <<>>
  /\ Len(consumed) = config.Requests
  /\ \A t \in Tasks : t <= config.Requests => taskPc[t] = "done"

\* C3: for Requests > 0 and Concurrency >= 1, under fair scheduling, the run
\* terminates with a Report (every goroutine got its token, every Result was
\* produced and consumed, the channel was closed), and it never ends in a
\* deadlock or a panic.
C3_Terminates ==
  /\ [](ValidConfig => mainPc \notin {"fatal", "panic"})
  /\ (Running /\ ValidConfig) ~> Completed

\* C3 witness: a completed run in which goroutines had to wait for a token.
C3_Witness ==
  /\ Completed
  /\ ValidConfig
  /\ config.Concurrency < config.Requests

\* C4: with Requests zero or Concurrency zero or negative, dispatch never
\* starts (no goroutine started, no token requested, no call made) and the
\* run ends with a configuration error, not a hang, a crash or a Report.
C4_InvalidConfigNeverDispatches ==
  (mainPc # "main" /\ (config.Requests = 0 \/ config.Concurrency <= 0)) =>
    /\ mainPc = "usage"
    /\ \A t \in Tasks : taskPc[t] = "unborn"
    /\ semaphore = 0
    /\ TotalDelivered = 0

RECURSIVE SumCounts(_, _)
SumCounts(m, keys) ==
  IF keys = {} THEN 0
  ELSE LET k == CHOOSE x \in keys : TRUE
       IN m[k] + SumCounts(m, keys \ {k})

\* The sum of the values of a map[K]int.
SumValues(m) == SumCounts(m, DOMAIN m)

\* C5: after any prefix of the Result stream, the counts of
\* Report.StatusCodes sum to Report.TotalRequests (the number of Results
\* processed); for a returned Report both equal Config.Requests.
C5_HistogramSumsToTotal ==
  /\ SumValues(report.StatusCodes) = report.TotalRequests
  /\ report.TotalRequests = Len(consumed)
  /\ mainPc = "report" => report.TotalRequests = config.Requests

\* C5 witness: a returned Report of two Results that carry the same code.
C5_Witness ==
  /\ mainPc = "report"
  /\ report.TotalRequests = 2
  /\ \E c \in DOMAIN report.StatusCodes : report.StatusCodes[c] = 2

RECURSIVE SumDetailCounts(_, _)
SumDetailCounts(details, keys) ==
  IF keys = {} THEN 0
  ELSE LET k == CHOOSE x \in keys : TRUE
       IN details[k].Count + SumDetailCounts(details, keys \ {k})

\* The processed Results that carry a failure.
FailedConsumed == {n \in 1..Len(consumed) : consumed[n].Error # Nil}

\* C6: after any prefix of the Result stream, Report.Errors is the sum of
\* the Counts of Report.ErrorDetails and the number of processed Results
\* that carry a failure.
C6_ErrorsSumToDetails ==
  /\ report.Errors = SumDetailCounts(report.ErrorDetails, DOMAIN report.ErrorDetails)
  /\ report.Errors = Cardinality(FailedConsumed)

\* C6 witness: two failures with the same message were processed.
C6_Witness ==
  /\ report.Errors = 2
  /\ \E m \in DOMAIN report.ErrorDetails : report.ErrorDetails[m].Count = 2

\* C10: a returned Report with durations has
\* MinDuration <= AvgDuration <= MaxDuration, AvgDuration being the integer
\* quotient of the sum of the durations by their number.
C10_MinAvgMax ==
  (mainPc = "report" /\ Len(report.Durations) > 0) =>
    /\ report.MinDuration <= report.AvgDuration
    /\ report.AvgDuration <= report.MaxDuration
    /\ report.AvgDuration * Len(report.Durations) <= SumSeq(report.Durations)
    /\ SumSeq(report.Durations) < (report.AvgDuration + 1) * Len(report.Durations)

\* C10 witness: a returned Report whose average lies strictly between its
\* minimum and its maximum.
C10_Witness ==
  /\ mainPc = "report"
  /\ Len(report.Durations) = 2
  /\ report.MinDuration < report.AvgDuration
  /\ report.AvgDuration < report.MaxDuration


\* ---------------------------------------------- claims on the classifier
\* The failure reports Timeout() or Temporary() through net.Error.
ReportsNetCondition(err) == err.isNetError /\ (err.Timeout \/ err.Temporary)

\* C7 as stated: two failures with the same message text get the same code,
\* whatever net.Error says of them.
C7_SameMessageSameCode ==
  (classified.pc = "classified"
     /\ ErrorText(classified.errA) = ErrorText(classified.errB)) =>
    classified.codeA = classified.codeB

\* C7 amended: two failures with the same message text get the same code
\* when neither reports Timeout() or Temporary() through net.Error; one that
\* reports Timeout() gets 408 and one that reports only Temporary() gets 503,
\* whatever the text.
C7_SameMessageSameCodeUnlessNetCondition ==
  classified.pc = "classified" =>
    /\ (/\ ErrorText(classified.errA) = ErrorText(classified.errB)
        /\ ~ReportsNetCondition(classified.errA)
        /\ ~ReportsNetCondition(classified.errB))
         => classified.codeA = classified.codeB
    /\ (classified.errA.isNetError /\ classified.errA.Timeout)
         => classified.codeA = 408
    /\ (/\ classified.errA.isNetError
        /\ ~classified.errA.Timeout
        /\ classified.errA.Temporary)
         => classified.codeA = 503

\* C7 witness: "connection refused" once as a net.Error that reports neither
\* condition and once as a plain error, both classified 503.
C7_Witness ==
  /\ classified.pc = "classified"
  /\ ErrorText(classified.errA) = {"connection refused"}
  /\ classified.errA.isNetError
  /\ ~ReportsNetCondition(classified.errA)
  /\ ~classified.errB.isNetError
  /\ classified.codeA = 503
  /\ classified.codeB = 503

\* The categories of the reference table, as the specification words them.
TimeoutCategory(err) ==
  \/ err.isNetError /\ err.Timeout
  \/ Contains(ErrorText(err), "context deadline exceeded")
  \/ Contains(ErrorText(err), "i/o timeout")
  \/ Contains(ErrorText(err), "TLS handshake timeout")

TemporaryCategory(err) == err.isNetError /\ err.Temporary

RefusedCategory(err) == Contains(ErrorText(err), "connection refused")

NoHostCategory(err) == Contains(ErrorText(err), "no such host")

CertificateCategory(err) ==
  Contains(ErrorText(err), "certificate") \/ Contains(ErrorText(err), "x509")

ServerErrorCategory(err) ==
  \/ Contains(ErrorText(err), "connection reset")
  \/ Contains(ErrorText(err), "EOF")
  \/ Contains(ErrorText(err), "connection closed")
  \/ Contains(ErrorText(err), "net/http")

RedirectCategory(err) ==
  Contains(ErrorText(err), "stopped after") /\ Contains(ErrorText(err), "redirects")

\* The categories a failure matches, by the code of each.
CategoriesOf(err) ==
  (IF TimeoutCategory(err) THEN {<<"timeout", 408>>} ELSE {})
  \cup (IF TemporaryCategory(err) THEN {<<"temporary", 503>>} ELSE {})
  \cup (IF RefusedCategory(err) THEN {<<"refused", 503>>} ELSE {})
  \cup (IF NoHostCategory(err) THEN {<<"no host", 404>>} ELSE {})
  \cup (IF CertificateCategory(err) THEN {<<"certificate", 495>>} ELSE {})
  \cup (IF ServerErrorCategory(err) THEN {<<"server error", 500>>} ELSE {})
  \cup (IF RedirectCategory(err) THEN {<<"redirect", 310>>} ELSE {})

\* C8: a timeout-category failure (net.Error with Timeout(), or a text with
\* "context deadline exceeded", "i/o timeout" or "TLS handshake timeout") is
\* classified 408 whatever else its text contains or lacks.
C8_TimeoutFirst ==
  (classified.pc = "classified" /\ TimeoutCategory(classified.errA)) =>
    classified.codeA = 408

\* C9: every failure gets a code of {310, 404, 408, 495, 500, 503}; one that
\* matches exactly one category, other than timeout, gets that category's
\* code; one that matches no category gets 500.
C9_TotalAndTable ==
  classified.pc = "classified" =>
    /\ classified.codeA \in {310, 404, 408, 495, 500, 503}
    /\ \A cat \in CategoriesOf(classified.errA) :
         (CategoriesOf(classified.errA) = {cat} /\ cat[1] # "timeout")
           => classified.codeA = cat[2]
    /\ CategoriesOf(classified.errA) = {} => classified.codeA = 500

\* C9 witness: a failure whose only category is certificate, by x509, with
\* two substrings of no category beside it.
C9_Witness ==
  /\ classified.pc = "classified"
  /\ ErrorText(classified.errA) = {"x509", "dial tcp", "lookup"}
  /\ ~classified.errA.isNetError
  /\ CategoriesOf(classified.errA) = {<<"certificate", 495>>}
  /\ classified.codeA = 495


\* ---------------------------------- claims on statistics and aggregator
\* The elements of a slice.
Elements(q) == {q[n] : n \in 1..Len(q)}

\* The least and the greatest number of a non-empty set.
Least(S) == CHOOSE x \in S : \A y \in S : x <= y
Greatest(S) == CHOOSE x \in S : \A y \in S : x >= y

\* C11: on a non-empty duration collection the reported percentiles are
\* monotone, p50 <= p90 <= p95 <= p99, and every percentile returned is an
\* element of the collection, between its minimum and its maximum.
C11_PercentilesMonotone ==
  (agg.pc = "queried" /\ Len(agg.before.Durations) > 0) =>
    /\ agg.percentile[50] <= agg.percentile[90]
    /\ agg.percentile[90] <= agg.percentile[95]
    /\ agg.percentile[95] <= agg.percentile[99]
    /\ \A p \in QueriedPercentiles :
         /\ agg.percentile[p] \in Elements(agg.before.Durations)
         /\ Least(Elements(agg.before.Durations)) <= agg.percentile[p]
         /\ agg.percentile[p] <= Greatest(Elements(agg.before.Durations))

\* C11 witness: three durations collected out of order, with a median below
\* the ninetieth percentile.
C11_Witness ==
  /\ agg.pc = "queried"
  /\ agg.before.Durations = <<Hour + 1, 1, 2>>
  /\ agg.percentile[50] = 2
  /\ agg.percentile[90] = Hour + 1

\* C12: with an empty duration collection AvgDuration is 0,
\* calculateStdDeviation returns 0 and calculatePercentile returns 0 for
\* every p; finalizing and querying the Report yield no undefined value.
C12_EmptyCollectionDefined ==
  (agg.pc \in {"returned", "queried"} /\ Len(agg.before.Durations) = 0) =>
    /\ agg.report.AvgDuration = 0
    /\ agg.report.StdDeviation = 0
    /\ agg.pc = "queried" =>
         /\ agg.deviation = 0
         /\ \A p \in QueriedPercentiles : agg.percentile[p] = 0

\* C12 witness: the statistics of a stream of two request-construction
\* failures were asked for.
C12_Witness ==
  /\ agg.pc = "queried"
  /\ Len(agg.processed) = 2
  /\ agg.before.Durations = <<>>
  /\ agg.before.Errors = 2
  /\ agg.deviation = 0


\* C13: for a Report whose duration collection is empty, none of the three
\* renderings presents the initial MinDuration of one hour as the minimum
\* duration: the plain report has no Minimum line, the JSON document's
\* MinDuration and the CSV row's minimum column are not the sentinel.
C13_SentinelNeverRendered ==
  (agg.pc = "rendered" /\ Len(agg.report.Durations) = 0) =>
    /\ ("Minimum" \in DOMAIN agg.plain => agg.plain.Minimum # Hour)
    /\ agg.json.MinDuration # Hour
    /\ agg.csv.MinDurationMs # Milliseconds(Hour)

\* C14: asking for the percentiles and the standard deviation of
\* report.Durations leaves every field of the Report as it was before the
\* calls, the order of the elements of Durations included.
C14_StatisticsLeaveReportUnchanged ==
  agg.pc = "queried" => agg.report = agg.before

\* Every processed Result carries a failure.
AllFailed == \A n \in 1..Len(consumed) : consumed[n].Error # Nil

\* The non-zero durations of a sequence of Results, in its order.
RECURSIVE ElapsedOf(_)
ElapsedOf(q) ==
  IF q = <<>> THEN <<>>
  ELSE IF Head(q).Duration > 0
         THEN <<Head(q).Duration>> \o ElapsedOf(Tail(q))
         ELSE ElapsedOf(Tail(q))

\* C15 as stated: a completed run in which every attempt failed returns a
\* Report with TotalRequests = Errors = Requests and an empty duration
\* collection.
C15_AllFailedEmptyDurations ==
  (Completed /\ AllFailed) =>
    /\ report.TotalRequests = config.Requests
    /\ report.Errors = config.Requests
    /\ report.Durations = <<>>

\* C15, amended: a run in which every attempt fails completes (one whose
\* request cannot be constructed always does, under fair scheduling) and
\* returns a Report with TotalRequests = Errors = Requests; its duration
\* collection holds the elapsed times of the transport failures, in arrival
\* order, and is empty exactly when every attempt was a request-construction
\* failure.
C15_AllFailedRunCompletes ==
  /\ []((Completed /\ AllFailed) =>
          /\ report.TotalRequests = config.Requests
          /\ report.Errors = config.Requests
          /\ report.Durations = ElapsedOf(consumed)
          /\ (report.Durations = <<>>
                <=> \A n \in 1..Len(consumed) : consumed[n].Duration = 0))
  /\ (Running /\ ValidConfig /\ NewRequestError(config) # Nil)
       ~> (Completed /\ AllFailed)

\* C15 witness: a completed run of two attempts that both failed in
\* transport, each after some elapsed time.
C15_Witness ==
  /\ Completed
  /\ AllFailed
  /\ config.Requests = 2
  /\ Len(report.Durations) = 2
  /\ report.Errors = 2

\* Nothing of executeLoadTest exists: no goroutine was started, no token was
\* taken, no Result was sent or processed, no channel was closed.
NothingDispatched ==
  /\ i = 0
  /\ wg = 0
  /\ semaphore = 0
  /\ results = <<>>
  /\ ~resultsClosed
  /\ progress = 0
  /\ ~progressClosed
  /\ \A t \in Tasks : taskPc[t] = "unborn" /\ delivered[t] = 0
  /\ closerPc = "unborn"
  /\ showPc = "unborn"
  /\ consumed = <<>>
  /\ report = NewReport

\* C16: once the flags are read, an empty URL or Requests = 0 means main has
\* printed the line that URL and number of requests are required and has
\* returned: executeLoadTest was not entered, nothing of it exists and no
\* Report was printed; with a non-empty URL and Requests other than 0 main
\* has entered executeLoadTest and the usage line is never printed.
C16_UsageOrDispatch ==
  mainPc # "main" =>
    IF config.URL = "" \/ config.Requests = 0
      THEN mainPc = "usage" /\ printed = UsageLine /\ NothingDispatched
      ELSE mainPc # "usage" /\ printed # UsageLine

\* C16 witness: a URL was given but Requests is 0, and main has stopped at
\* the usage line.
C16_Witness ==
  /\ mainPc = "usage"
  /\ config.URL # ""
  /\ config.Requests = 0
  /\ config.Concurrency >= 1
  /\ printed = UsageLine

\* collectResults on a whole stream: the loop from the new Report, then the
\* statements after it.
RECURSIVE CollectFrom(_, _)
CollectFrom(r, q) ==
  IF q = <<>> THEN r ELSE CollectFrom(ProcessResult(r, Head(q)), Tail(q))

CollectAll(q) == FinalizeReport(CollectFrom(NewReport, q))

\* The sequence q taken in the order f, a permutation of its indices.
Reordered(q, f) == [n \in 1..Len(q) |-> q[f[n]]]

\* What C17 compares of a Report: every field it names, the durations as a
\* multiset.
OrderFreePart(r) ==
  [TotalRequests |-> r.TotalRequests, StatusCodes |-> r.StatusCodes,
   Errors |-> r.Errors, MinDuration |-> r.MinDuration,
   MaxDuration |-> r.MaxDuration, AvgDuration |-> r.AvgDuration,
   Durations |-> SortAscending(r.Durations),
   ErrorDetails |-> r.ErrorDetails]

\* C17: the Report collectResults returns for a stream of Results and the
\* Report it returns for any permutation of that stream have the same
\* TotalRequests, StatusCodes, Errors, MinDuration, MaxDuration,
\* AvgDuration, multiset of Durations and ErrorDetails entries (Count,
\* Message and Code).
C17_ArrivalOrderIrrelevant ==
  agg.pc = "returned" =>
    \A f \in Permutations(1..Len(agg.processed)) :
      OrderFreePart(CollectAll(Reordered(agg.processed, f)))
        = OrderFreePart(agg.report)

\* The places in a sequence of Results of the failures with message m.
FailuresWith(q, m) ==
  {n \in 1..Len(q) : q[n].Error # Nil /\ ErrorText(q[n].Error) = m}

\* The failure messages of a sequence of Results.
FailureMessages(q) ==
  {ErrorText(q[n].Error) : n \in {k \in 1..Len(q) : q[k].Error # Nil}}

\* C18: after any sequence of Results, ErrorDetails has exactly one entry
\* per failure message seen (so two messages with one code have two
\* entries); the Count of an entry is the number of failed Results with its
\* message, its Message is its key, and its Code is the StatusCode of the
\* first processed Result with that message.
C18_ErrorDetailsByMessage ==
  /\ DOMAIN agg.report.ErrorDetails = FailureMessages(agg.processed)
  /\ \A m \in DOMAIN agg.report.ErrorDetails :
       LET detail == agg.report.ErrorDetails[m]
           first == Least(FailuresWith(agg.processed, m))
       IN /\ detail.Count = Cardinality(FailuresWith(agg.processed, m))
          /\ detail.Message = m
          /\ detail.Code = agg.processed[first].StatusCode

\* C18 witness: three failures were processed, the first two with one
\* message and the codes 408 then 503, the third with another message and
\* the code 408: two entries, the first with Count 2 and Code 408.
C18_Witness ==
  /\ Len(agg.processed) = 3
  /\ agg.processed[1].StatusCode = 408
  /\ agg.processed[2].StatusCode = 503
  /\ agg.processed[3].StatusCode = 408
  /\ ErrorText(agg.processed[1].Error) = ErrorText(agg.processed[2].Error)
  /\ ErrorText(agg.processed[3].Error) # ErrorText(agg.processed[1].Error)
  /\ Cardinality(DOMAIN agg.report.ErrorDetails) = 2
  /\ agg.report.ErrorDetails[ErrorText(agg.processed[1].Error)].Count = 2
  /\ agg.report.ErrorDetails[ErrorText(agg.processed[1].Error)].Code = 408

\* The count a map[int]int holds for a key (0 for a key it does not hold).
CountOf(m, k) == IF k \in DOMAIN m THEN m[k] ELSE 0

\* C19: after any sequence of Results (and before the statistics sort the
\* slice), Durations holds the durations > 0 of the processed Results, one
\* element for each, in their order; a Result with Duration 0 has added 1 to
\* TotalRequests, to its StatusCodes entry and to Errors and has left
\* Durations, MinDuration and MaxDuration as they were.
C19_DurationsAreTheNonZero ==
  /\ agg.pc # "queried" =>
       /\ agg.report.Durations = ElapsedOf(agg.processed)
       /\ Len(agg.report.Durations)
            = Cardinality({n \in 1..Len(agg.processed) :
                             agg.processed[n].Duration > 0})
       /\ \A n \in 1..Len(agg.report.Durations) : agg.report.Durations[n] > 0
  /\ (agg.pc = "collect" /\ agg.processed # <<>> /\ agg.last.Duration = 0) =>
       /\ agg.report.TotalRequests = agg.before.TotalRequests + 1
       /\ agg.report.StatusCodes[agg.last.StatusCode]
            = CountOf(agg.before.StatusCodes, agg.last.StatusCode) + 1
       /\ agg.report.Errors = agg.before.Errors + 1
       /\ agg.report.Durations = agg.before.Durations
       /\ agg.report.MinDuration = agg.before.MinDuration
       /\ agg.report.MaxDuration = agg.before.MaxDuration

\* C19 witness: a Result with an elapsed time was processed, then one with
\* Duration 0 (its request could not be constructed).
C19_Witness ==
  /\ agg.pc = "collect"
  /\ Len(agg.processed) = 2
  /\ agg.processed[1].Duration > 0
  /\ agg.last.Duration = 0
  /\ agg.last.Error # Nil
  /\ Len(agg.report.Durations) = 1
  /\ agg.report.TotalRequests = 2
  /\ agg.report.MinDuration = agg.processed[1].Duration

\* C20: whenever Durations is not empty, MinDuration is its smallest element
\* and MaxDuration its largest, whatever the positive durations are, those
\* that all exceed one hour included.
C20_MinMaxAreExtremes ==
  Len(agg.report.Durations) > 0 =>
    /\ agg.report.MinDuration = Least(Elements(agg.report.Durations))
    /\ agg.report.MaxDuration = Greatest(Elements(agg.report.Durations))


\* ------------------------------------------ claims on the percentile rank
\* The number of elements of q below x, and of those not above x.
CountBelow(q, x) == Cardinality({n \in 1..Len(q) : q[n] < x})
CountUpTo(q, x) == Cardinality({n \in 1..Len(q) : q[n] <= x})

\* min(floor(n * p / 100), n - 1), counted from 0.
NearestRank(n, p) ==
  IF (n * p) \div 100 < n - 1 THEN (n * p) \div 100 ELSE n - 1

\* C21: for n > 0 durations and a whole percentile p of 0..100,
\* calculatePercentile returns the element that stands at index
\* min(floor(n * p / 100), n - 1) of the collection in ascending order (it is
\* an element with at most that many elements below it and more than that
\* many not above it); p = 100 gives the maximum and p = 0 the minimum.
C21_NearestRankElement ==
  (agg.pc = "queried" /\ Len(agg.before.Durations) > 0) =>
    /\ \A p \in QueriedPercentiles :
         /\ agg.percentile[p] \in Elements(agg.before.Durations)
         /\ CountBelow(agg.before.Durations, agg.percentile[p])
              <= NearestRank(Len(agg.before.Durations), p)
         /\ NearestRank(Len(agg.before.Durations), p)
              < CountUpTo(agg.before.Durations, agg.percentile[p])
    /\ agg.percentile[100] = Greatest(Elements(agg.before.Durations))
    /\ agg.percentile[0] = Least(Elements(agg.before.Durations))

\* C21 witness: three unsorted durations; the index passes from 0 to 1
\* between p = 33 and p = 34 and from 1 to 2 between p = 66 and p = 67.
C21_Witness ==
  /\ agg.pc = "queried"
  /\ agg.before.Durations = <<2, Hour + 1, 1>>
  /\ agg.percentile[33] = 1
  /\ agg.percentile[34] = 2
  /\ agg.percentile[66] = 2
  /\ agg.percentile[67] = Hour + 1
  /\ agg.percentile[100] = Hour + 1


\* ------------------------------------------ claims on tokens and streams
\* Every started attempt goroutine is past its release.
AllReleased ==
  /\ mainPc \in {"collect", "report", "exit"}
  /\ \A t \in Tasks :
       t <= config.Requests => taskPc[t] \in {"wgDone", "done"}

\* C22: the tokens in the semaphore are as many as the goroutines between
\* their acquire and their release, and none is left once every goroutine
\* is past its release; a goroutine enters makeRequest only by the step
\* that adds one token, leaves its release only by the step that removes
\* one, whatever Result makeRequest sent, and nothing else changes the
\* number of tokens.
C22_TokenPerTask ==
  /\ [](/\ semaphore = Cardinality(Holders)
        /\ semaphore >= 0
        /\ (AllReleased => semaphore = 0))
  /\ [][/\ \A t \in Tasks :
            /\ (taskPc[t] # "makeRequest" /\ taskPc'[t] = "makeRequest") =>
                 (taskPc[t] = "acquire" /\ semaphore' = semaphore + 1)
            /\ (taskPc[t] = "release" /\ taskPc'[t] # "release") =>
                 (taskPc'[t] = "wgDone" /\ semaphore' = semaphore - 1)
        /\ semaphore' # semaphore =>
             \E t \in Tasks :
               \/ taskPc[t] = "acquire" /\ taskPc'[t] = "makeRequest"
               \/ taskPc[t] = "release" /\ taskPc'[t] = "wgDone"]_vars

\* C22 witness: with one token, two goroutines have finished, one after a
\* response and one after a transport failure, and the semaphore is empty.
C22_Witness ==
  /\ config.Requests = 2
  /\ config.Concurrency = 1
  /\ AllReleased
  /\ \A t \in 1..2 : taskPc[t] = "done"
  /\ Len(consumed) = 2
  /\ consumed[1].Error = Nil
  /\ consumed[2].Error # Nil
  /\ semaphore = 0


\* C23: every goroutine emits one progress event, after it has delivered its
\* Result: at any moment a goroutine has emitted at most once and not
\* before its delivery, so the events emitted are at most the Results
\* delivered; the count of showProgress is the number of events it has
\* received, never decreases, never exceeds Requests, and is Requests once
\* the progress channel is closed and drained.
C23_OneProgressAfterDelivery ==
  /\ [](/\ \A t \in Tasks :
            /\ emitted[t] <= delivered[t]
            /\ emitted[t] <= 1
            /\ taskPc[t] \in {"release", "wgDone", "done"} <=> emitted[t] = 1
        /\ TotalEmitted <= TotalDelivered
        /\ current + progress = TotalEmitted
        /\ showPc # "unborn" => current <= config.Requests
        /\ (progressClosed /\ progress = 0) => current = config.Requests)
  /\ [][current' >= current]_vars

\* C23 witness: two goroutines emitted, the channel was closed and
\* showProgress has received both events and left its loop.
C23_Witness ==
  /\ config.Requests = 2
  /\ progressClosed
  /\ progress = 0
  /\ current = 2
  /\ showPc = "done"


\* C24: a goroutine that holds a token and stands at the send of its Result
\* or of its progress event can take that step at once, whatever the two
\* consumers have received so far (nothing, too): the Results waiting in the
\* results channel and the events waiting in the progress channel are never
\* more than Requests, the capacity of both, and there is room left
\* whenever a goroutine has its send still to do.
C24_SendsNeverBlock ==
  /\ \A t \in Tasks :
       /\ (Running /\ taskPc[t] = "makeRequest") =>
            (ENABLED makeRequest(t) /\ Len(results) < config.Requests)
       /\ (Running /\ taskPc[t] = "progress") =>
            (ENABLED EmitProgress(t) /\ progress < config.Requests)
  /\ config.Requests >= 0 =>
       (Len(results) <= config.Requests /\ progress <= config.Requests)

\* C24 witness: neither consumer has received anything, both channels are
\* full, and both goroutines have finished and returned their tokens.
C24_Witness ==
  /\ config.Requests = 2
  /\ Len(results) = 2
  /\ progress = 2
  /\ consumed = <<>>
  /\ current = 0
  /\ \A t \in 1..2 : taskPc[t] = "done"
  /\ semaphore = 0


\* Every attempt goroutine has sent on both channels and called wg.Done().
AllTasksDone ==
  /\ \A t \in Tasks : t <= config.Requests => taskPc[t] = "done"
  /\ TotalDelivered = config.Requests
  /\ TotalEmitted = config.Requests

\* The closes so far came in order and after the last send: a channel is
\* closed exactly when the closing goroutine is past its close, which it
\* reaches only when every attempt goroutine is done; the WaitGroup counter
\* is not negative; a panic, if any, came from make, before any goroutine
\* existed (not from a send on a closed channel, a second close or a
\* negative counter).
ClosedAfterLastSend ==
  /\ resultsClosed <=> closerPc \in {"closeProgress", "done"}
  /\ progressClosed <=> closerPc = "done"
  /\ closerPc \in {"closeResults", "closeProgress", "done"} => AllTasksDone
  /\ wg >= 0
  /\ mainPc = "panic" =>
       /\ closerPc = "unborn"
       /\ \A t \in Tasks : taskPc[t] = "unborn"
       /\ (config.Requests < 0 \/ config.Concurrency < 0)

\* A closed channel stays closed, and only the closing goroutine's own step
\* closes one.
ClosedOnlyByCloser ==
  /\ resultsClosed => resultsClosed'
  /\ progressClosed => progressClosed'
  /\ (~resultsClosed /\ resultsClosed') =>
       (closerPc = "closeResults" /\ closerPc' = "closeProgress")
  /\ (~progressClosed /\ progressClosed') =>
       (closerPc = "closeProgress" /\ closerPc' = "done")

\* C25 as stated: in every run of a valid Configuration, under fair
\* scheduling, close(results) and close(progress) each execute exactly once
\* (never twice, and both do execute), only after every goroutine's last
\* send and wg.Done(); no send on a closed channel, no second close and no
\* negative WaitGroup counter is reachable.
C25_BothClosedExactlyOnce ==
  /\ []ClosedAfterLastSend
  /\ [][ClosedOnlyByCloser]_vars
  /\ (mainPc = "executeLoadTest" /\ ValidConfig)
       ~> (resultsClosed /\ progressClosed)

\* C25, amended: close(results) and close(progress) each execute at most
\* once, in that order, only after every goroutine's last send and
\* wg.Done(); no send on a closed channel, no second close and no negative
\* WaitGroup counter is reachable; a Report is returned only after
\* close(results) has executed (close(progress) need not have: main may
\* return first).
C25_CloseAfterLastSend ==
  /\ [](ClosedAfterLastSend /\ (mainPc \in {"report", "exit"} => resultsClosed))
  /\ [][ClosedOnlyByCloser]_vars

\* C25 witness: both channels are closed after two goroutines finished,
\* while a Result still waits in the results channel.
C25_Witness ==
  /\ config.Requests = 2
  /\ closerPc = "done"
  /\ resultsClosed
  /\ progressClosed
  /\ wg = 0
  /\ AllTasksDone
  /\ Len(results) >= 1
  /\ mainPc = "collect"

====
